---- MODULE Spec2Model ----
(***************************************************************************)
(* A model of optimizely/optimizely_config.py: OptimizelyConfigService,    *)
(* which projects a parsed ProjectConfig into the read-only OptimizelyConfig*)
(* view (experiments, features, variables, rendered audience conditions).  *)
(*                                                                         *)
(* Python values are modelled as follows.                                  *)
(*   dict / object  a record or a function over strings; an absent key is  *)
(*                  a name outside DOMAIN                                  *)
(*   list           a sequence                                             *)
(*   str            a string; + is \o                                      *)
(*   object identity the "oid" field of a view object: the allocation site *)
(*                  and the call and loop indices of the allocation        *)
(*   raise          the record Raise(exc) in place of a returned value     *)
(***************************************************************************)
EXTENDS Integers, Sequences, FiniteSets, TLC

VARIABLES
    project_config,   \* the object handed to OptimizelyConfigService(...)
    is_valid,         \* self.is_valid
    exp_id_to_feature_map,                      \* self.exp_id_to_feature_map
    feature_key_variable_key_to_variable_map,   \* self.feature_key_variable_key_to_variable_map
    feature_key_variable_id_to_variable_map,    \* self.feature_key_variable_id_to_variable_map
    calls,            \* number of method calls made on the service so far
    returned,         \* what each get_config call returned (or raised), in call order
    variables_map,    \* the outcome of the last direct _get_variables_map call
    experiments_maps, \* the outcome of the last direct _get_experiments_maps call
    experiment_audience_condition,  \* the condition tree handed to the renderer
    result_audience,  \* the outcome of the last __get_experiment_audiences call
    pc                \* which operation ran last

vars == <<project_config, is_valid, exp_id_to_feature_map,
          feature_key_variable_key_to_variable_map,
          feature_key_variable_id_to_variable_map, calls, returned,
          variables_map, experiments_maps, experiment_audience_condition,
          result_audience, pc>>

-----------------------------------------------------------------------------
(* Bounds of the model *)

MaxCalls == 2
MaxOverrides == 2
MaxVariables == 2
MaxLen == 3
MaxAudiences == 2
MaxRecords == 2

-----------------------------------------------------------------------------
(* Python helpers *)

Range(s) == {s[i] : i \in DOMAIN s}

\* d[k] = v on a dict
DictSet(d, k, v) == [x \in (DOMAIN d) \cup {k} |-> IF x = k THEN v ELSE d[x]]

\* d.get(k, default)
DictGet(d, k, default) == IF k \in DOMAIN d THEN d[k] ELSE default

\* the outcome of a call: a returned value, or an exception that propagates
Return(v) == [raised |-> FALSE, value |-> v]
Raise(exc) == [raised |-> TRUE, exc |-> exc]

NoCall == [raised |-> FALSE, nocall |-> TRUE]

\* Python's None as a returned value
None == [none |-> TRUE]

\* A variation's featureEnabled flag is True, False or unset (.get gives None);
\* the three values are written as the strings Python prints for them.
Truthy(flag) == flag = "True"

\* sequences over S of length 0..n
SeqsUpTo(S, n) == UNION {[1..k -> S] : k \in 0..n}

-----------------------------------------------------------------------------
(* The view classes *)

OptimizelyVariable(oid, id, key, variable_type, value) ==
    [oid |-> oid, id |-> id, key |-> key, type |-> variable_type, value |-> value]

OptimizelyVariation(id, key, feature_enabled, vmap) ==
    [id |-> id, key |-> key, feature_enabled |-> feature_enabled, variables_map |-> vmap]

OptimizelyExperiment(oid, id, key, variations_map, audiences) ==
    [oid |-> oid, id |-> id, key |-> key, audiences |-> audiences,
     variations_map |-> variations_map]

\* experiment_rules or [] and delivery_rules or [] are the lists themselves
OptimizelyFeature(id, key, experiments_map, vmap, experiment_rules, delivery_rules) ==
    [id |-> id, key |-> key, experimentRules |-> experiment_rules,
     deliveryRules |-> delivery_rules, experiments_map |-> experiments_map,
     variables_map |-> vmap]

OptimizelyAttribute(attribute) == [id |-> attribute.id, key |-> attribute.key]

OptimizelyAudience(id, name, conditions) ==
    [id |-> id, name |-> name, conditions |-> conditions]

OptimizelyEvent(id, key, experiment_ids) ==
    [id |-> id, key |-> key, experimentIds |-> experiment_ids]

\* sdk_key or '', attributes or [], ... : the empty values are themselves falsy
OptimizelyConfig(revision, experiments_map, features_map, datafile, sdk_key, environment_key, attributes, events, audiences) ==
    [revision |-> revision, experiments_map |-> experiments_map,
     features_map |-> features_map, datafile |-> datafile, sdk_key |-> sdk_key,
     environment_key |-> environment_key, attributes |-> attributes,
     events |-> events, audiences |-> audiences]

-----------------------------------------------------------------------------
(* Object identities *)

\* the OptimizelyVariable allocated by _create_lookup_maps for variable v of feature f
RegistryOid(f, v) == [site |-> "registry", path |-> <<f, v>>]

\* a bug: one copy per experiment, handed to each of its variations
CopyOidPerExperiment(ctx, oid) ==
    [site |-> "deepcopy", path |-> SubSeq(ctx, 1, 3) \o oid.path]

\* an object allocated by copy.deepcopy in the call context ctx, cloned from oid
CopyOid(ctx, oid) == [site |-> "deepcopy", path |-> ctx \o oid.path]

\* the OptimizelyExperiment allocated in the call context ctx
ExperimentOid(ctx) == [site |-> "experiment", path |-> ctx]

-----------------------------------------------------------------------------
(* The inputs: parsed project configurations, and objects that are none *)

\* the j-th variable declaration of a feature
VariableDecl(j) ==
    [id |-> "v" \o ToString(j), key |-> "k" \o ToString(j),
     type |-> IF j % 2 = 1 THEN "string" ELSE "integer",
     defaultValue |-> "d" \o ToString(j)]

DeclaredVariables(n) == [j \in 1..n |-> VariableDecl(j)]

\* variable ids an override may name: the declarable ones and one never declared
OverrideIds == {"v" \o ToString(j) : j \in 0..MaxVariables}
OverrideValues == {"o1", "o2"}
Overrides == [id : OverrideIds, value : OverrideValues]
OverrideLists == SeqsUpTo(Overrides, MaxOverrides)

FeatureEnabledValues == {"True", "False", "unset"}

\* a variation record; fe = "unset" leaves the featureEnabled key out
Variation(id, key, fe, overrides) ==
    IF fe = "unset"
    THEN [id |-> id, key |-> key, variables |-> overrides]
    ELSE [id |-> id, key |-> key, featureEnabled |-> fe, variables |-> overrides]

\* A condition tree: a scalar item is S(text), a list is L(<<items>>), and
\* Python's None is None.
S(text) == [s |-> text]
L(items) == [l |-> items]

\* an experiment record; cond = NoConditions leaves the audienceConditions key out
NoConditions == [absent |-> TRUE]
Experiment(id, key, cond, variations) ==
    IF cond = NoConditions
    THEN [id |-> id, key |-> key, variations |-> variations]
    ELSE [id |-> id, key |-> key, audienceConditions |-> cond, variations |-> variations]

\* a feature-flag record; rollout = "absent" leaves the rolloutId key out
Feature(id, key, experiment_ids, rollout, variables) ==
    IF rollout = "absent"
    THEN [id |-> id, key |-> key, experimentIds |-> experiment_ids, variables |-> variables]
    ELSE [id |-> id, key |-> key, experimentIds |-> experiment_ids, rolloutId |-> rollout,
          variables |-> variables]

\* an Audience entity of the audience-id index
Audience(id, name, conditions) == [id |-> id, name |-> name, conditions |-> conditions]

\* project_config.audience_id_map: audiences "1", "2" and "3" are known, "9" is not
AudienceIdMap ==
    [id \in {"1", "2", "3"} |-> Audience(id, "Name" \o id, "cond" \o id)]

-----------------------------------------------------------------------------
(* __get_experiment_audiences: the audience-condition renderer *)

\* a bug: the operator token is not upper-cased
UpperMissing(item) == item

\* str(item).upper() of an operator token
Upper(item) ==
    CASE item = "and" -> "AND"
      [] item = "or" -> "OR"
      [] item = "not" -> "NOT"

\* item in ["and", "or", "not"]
IsOperator(item) == item \in {"and", "or", "not"}

\* a bug: an id without an entry falls back to an empty name, not to the id
AudienceNameEmptyFallback(item_str, audience_id_map) ==
    IF item_str \in DOMAIN audience_id_map
    THEN audience_id_map[item_str].name
    ELSE ""

\* project_config_audience_id_map[item_str].name, or item_str when that raises
AudienceName(item_str, audience_id_map) ==
    IF item_str \in DOMAIN audience_id_map
    THEN audience_id_map[item_str].name
    ELSE item_str

\* a bug: the test is result_audience != "" alone, without or cond == "NOT"
ScalarOperandNotIgnored(st, item_str, audience_id_map) ==
    IF st.result_audience # ""
    THEN LET cond == IF st.cond # "" THEN st.cond ELSE "OR"
         IN [result_audience |->
                 st.result_audience \o " " \o cond \o " \""
                     \o AudienceName(item_str, audience_id_map) \o "\"",
             cond |-> cond]
    ELSE [result_audience |-> "\"" \o AudienceName(item_str, audience_id_map) \o "\"",
          cond |-> st.cond]

\* a bug: an empty cond is not replaced by "OR"
ScalarOperandNoDefault(st, item_str, audience_id_map) ==
    IF st.result_audience # "" \/ st.cond = "NOT"
    THEN LET result == IF st.result_audience # ""
                       THEN st.result_audience \o " "
                       ELSE st.result_audience
         IN [result_audience |->
                 result \o st.cond \o " \"" \o AudienceName(item_str, audience_id_map) \o "\"",
             cond |-> st.cond]
    ELSE [result_audience |-> "\"" \o AudienceName(item_str, audience_id_map) \o "\"",
          cond |-> st.cond]

\* a bug: the pending operator is used up by the operand it prefixes
ScalarOperandUsesUp(st, item_str, audience_id_map) ==
    IF st.result_audience # "" \/ st.cond = "NOT"
    THEN LET result == IF st.result_audience # ""
                       THEN st.result_audience \o " "
                       ELSE st.result_audience
             cond == IF st.cond # "" THEN st.cond ELSE "OR"
         IN [result_audience |->
                 result \o cond \o " \"" \o AudienceName(item_str, audience_id_map) \o "\"",
             cond |-> ""]
    ELSE [result_audience |-> "\"" \o AudienceName(item_str, audience_id_map) \o "\"",
          cond |-> st.cond]

\* an operand that is an audience id: st is (result_audience, cond)
ScalarOperand(st, item_str, audience_id_map) ==
    IF st.result_audience # "" \/ st.cond = "NOT"
    THEN LET result == IF st.result_audience # ""
                       THEN st.result_audience \o " "
                       ELSE st.result_audience
             cond == IF st.cond # "" THEN st.cond ELSE "OR"
         IN [result_audience |->
                 result \o cond \o " \"" \o AudienceName(item_str, audience_id_map) \o "\"",
             cond |-> cond]
    ELSE [result_audience |-> "\"" \o AudienceName(item_str, audience_id_map) \o "\"",
          cond |-> st.cond]

\* a bug: a nested list is prefixed by the operator also when it comes first
NestedOperandAlwaysPrefixed(st, sub_audiences) ==
    IF sub_audiences # ""
    THEN LET result == IF st.result_audience # ""
                       THEN st.result_audience \o " "
                       ELSE st.result_audience
             cond == IF st.cond # "" THEN st.cond ELSE "OR"
         IN [result_audience |-> result \o cond \o " " \o sub_audiences, cond |-> cond]
    ELSE st

\* the end of the loop body: sub_audiences is "" unless the item was a list
NestedOperand(st, sub_audiences) ==
    IF sub_audiences # ""
    THEN IF st.result_audience # "" \/ st.cond = "NOT"
         THEN LET result == IF st.result_audience # ""
                            THEN st.result_audience \o " "
                            ELSE st.result_audience
                  cond == IF st.cond # "" THEN st.cond ELSE "OR"
              IN [result_audience |-> result \o cond \o " " \o sub_audiences,
                  cond |-> cond]
         ELSE [result_audience |-> st.result_audience \o sub_audiences, cond |-> st.cond]
    ELSE st

RECURSIVE _get_experiment_audiences(_, _)
RECURSIVE RenderItems(_, _, _, _)

\* the for loop over the items of one condition list, from item i on
RenderItems(items, i, st, audience_id_map) ==
    IF i > Len(items)
    THEN st
    ELSE LET item == items[i] IN
         IF "l" \in DOMAIN item
         THEN RenderItems(items, i + 1,
                  NestedOperand(st,
                      "(" \o _get_experiment_audiences(item, audience_id_map) \o ")"),
                  audience_id_map)
         ELSE IF IsOperator(item.s)
         THEN RenderItems(items, i + 1,
                  NestedOperand([st EXCEPT !.cond = Upper(item.s)], ""),
                  audience_id_map)
         ELSE RenderItems(items, i + 1,
                  NestedOperand(ScalarOperand(st, item.s, audience_id_map), ""),
                  audience_id_map)

\* if experiment_audience_condition: a list that is not empty
IsNonEmptyList(cond) == "l" \in DOMAIN cond /\ Len(cond.l) > 0

_get_experiment_audiences(cond, audience_id_map) ==
    IF IsNonEmptyList(cond)
    THEN RenderItems(cond.l, 1, [result_audience |-> "", cond |-> ""],
                     audience_id_map).result_audience
    ELSE ""

-----------------------------------------------------------------------------
(* _create_lookup_maps *)

RECURSIVE SetExperimentIdsOnce(_, _, _, _)
\* a bug: an experiment id that already has a feature keeps it
SetExperimentIdsOnce(map, feature, experiment_ids, i) ==
    IF i > Len(experiment_ids)
    THEN map
    ELSE IF experiment_ids[i] \in DOMAIN map
    THEN SetExperimentIdsOnce(map, feature, experiment_ids, i + 1)
    ELSE SetExperimentIdsOnce(DictSet(map, experiment_ids[i], feature), feature,
                              experiment_ids, i + 1)

RECURSIVE SetExperimentIds(_, _, _, _)
\* for experiment_id in feature['experimentIds']:
\*     self.exp_id_to_feature_map[experiment_id] = feature
SetExperimentIds(map, feature, experiment_ids, i) ==
    IF i > Len(experiment_ids)
    THEN map
    ELSE SetExperimentIds(DictSet(map, experiment_ids[i], feature), feature,
                          experiment_ids, i + 1)

RECURSIVE VariableMaps(_, _, _, _)
\* for variable in feature.get('variables', []): one OptimizelyVariable per
\* declaration, stored under its key and under its id; f is the feature's index
VariableMaps(maps, variables, f, j) ==
    IF j > Len(variables)
    THEN maps
    ELSE LET variable == variables[j]
             opt_variable == OptimizelyVariable(RegistryOid(f, j), variable.id,
                                 variable.key, variable.type, variable.defaultValue)
         IN VariableMaps([variables_key_map |->
                              DictSet(maps.variables_key_map, variable.key, opt_variable),
                          variables_id_map |->
                              DictSet(maps.variables_id_map, variable.id, opt_variable)],
                         variables, f, j + 1)

RECURSIVE LookupMapsLoop(_, _, _)
\* for feature in self.feature_flags, from feature f on
LookupMapsLoop(maps, feature_flags, f) ==
    IF f > Len(feature_flags)
    THEN maps
    ELSE LET feature == feature_flags[f]
             vm == VariableMaps([variables_key_map |-> <<>>, variables_id_map |-> <<>>],
                                DictGet(feature, "variables", <<>>), f, 1)
         IN LookupMapsLoop(
                [exp_id_to_feature_map |->
                     SetExperimentIds(maps.exp_id_to_feature_map, feature,
                                      feature.experimentIds, 1),
                 feature_key_variable_key_to_variable_map |->
                     DictSet(maps.feature_key_variable_key_to_variable_map,
                             feature.key, vm.variables_key_map),
                 feature_key_variable_id_to_variable_map |->
                     DictSet(maps.feature_key_variable_id_to_variable_map,
                             feature.key, vm.variables_id_map)],
                feature_flags, f + 1)

_create_lookup_maps(feature_flags) ==
    LookupMapsLoop([exp_id_to_feature_map |-> <<>>,
                    feature_key_variable_key_to_variable_map |-> <<>>,
                    feature_key_variable_id_to_variable_map |-> <<>>],
                   feature_flags, 1)

-----------------------------------------------------------------------------
(* _get_variables_map and _get_variations_map *)

\* a bug: the registry's map is used without copy.deepcopy
DeepCopyMissing(vmap, ctx) == vmap

\* copy.deepcopy of a map of OptimizelyVariable: new objects, equal fields
DeepCopy(vmap, ctx) ==
    [k \in DOMAIN vmap |-> [vmap[k] EXCEPT !.oid = CopyOid(ctx, vmap[k].oid)]]

\* a bug: the override loop is missing, every variation keeps the defaults
ApplyOverridesDropped(vmap, variables_id_map, overrides, i) == Return(vmap)

RECURSIVE ApplyOverridesById(_, _, _, _)
\* a bug: the override is stored under the override's id, not the variable's key
ApplyOverridesById(vmap, variables_id_map, overrides, i) ==
    IF i > Len(overrides)
    THEN Return(vmap)
    ELSE LET variable == overrides[i] IN
         IF variable.id \notin DOMAIN variables_id_map
         THEN Raise("KeyError")
         ELSE ApplyOverridesById(
                  DictSet(vmap, variable.id,
                      [variables_id_map[variable.id] EXCEPT !.value = variable.value]),
                  variables_id_map, overrides, i + 1)

RECURSIVE ApplyOverrides(_, _, _, _)
\* for variable in variation.get('variables', []):
\*     feature_variable = <id registry of the feature>[variable['id']]
\*     variables_map[feature_variable.key].value = variable['value']
ApplyOverrides(vmap, variables_id_map, overrides, i) ==
    IF i > Len(overrides)
    THEN Return(vmap)
    ELSE LET variable == overrides[i] IN
         IF variable.id \notin DOMAIN variables_id_map
         THEN Raise("KeyError")
         ELSE LET feature_variable == variables_id_map[variable.id] IN
              IF feature_variable.key \notin DOMAIN vmap
              THEN Raise("KeyError")
              ELSE ApplyOverrides(
                       [vmap EXCEPT ![feature_variable.key].value = variable.value],
                       variables_id_map, overrides, i + 1)

\* a bug: the featureEnabled check is missing, overrides always apply
FeatureEnabledIgnored(variation) == TRUE

\* if variation.get('featureEnabled')
FeatureEnabled(variation) == Truthy(DictGet(variation, "featureEnabled", "None"))

\* a bug: an experiment that no feature lists is resolved against the first
\* feature flag
_get_variables_map_first_feature(experiment, variation, ctx) ==
    LET feature_flag == DictGet(exp_id_to_feature_map, experiment.id,
                                project_config.feature_flags[1])
        copied == DeepCopy(
            feature_key_variable_key_to_variable_map[feature_flag.key], ctx)
    IN IF FeatureEnabled(variation)
       THEN ApplyOverrides(copied,
                feature_key_variable_id_to_variable_map[feature_flag.key],
                DictGet(variation, "variables", <<>>), 1)
       ELSE Return(copied)

_get_variables_map(experiment, variation, ctx) ==
    LET feature_flag == DictGet(exp_id_to_feature_map, experiment.id, None) IN
    IF feature_flag = None
    THEN Return(<<>>)
    ELSE LET copied == DeepCopy(
                 feature_key_variable_key_to_variable_map[feature_flag.key], ctx)
         IN IF FeatureEnabled(variation)
            THEN ApplyOverrides(copied,
                     feature_key_variable_id_to_variable_map[feature_flag.key],
                     DictGet(variation, "variables", <<>>), 1)
            ELSE Return(copied)

RECURSIVE VariationsLoop(_, _, _, _)
\* for variation in experiment.get('variations', []), from variation j on
VariationsLoop(variations_map, experiment, j, ctx) ==
    LET variations == DictGet(experiment, "variations", <<>>) IN
    IF j > Len(variations)
    THEN Return(variations_map)
    ELSE LET variation == variations[j]
             vm == _get_variables_map(experiment, variation, ctx \o <<j>>)
         IN IF vm.raised
            THEN vm
            ELSE VariationsLoop(
                     DictSet(variations_map, variation.key,
                         OptimizelyVariation(variation.id, variation.key,
                             DictGet(variation, "featureEnabled", "None"), vm.value)),
                     experiment, j + 1, ctx)

_get_variations_map(experiment, ctx) == VariationsLoop(<<>>, experiment, 1, ctx)

-----------------------------------------------------------------------------
(* _get_all_experiments, _get_experiments_maps *)

\* a bug: the experiments of the groups are not added
GroupExperimentsLeftOut(experiments, groups, g) == experiments

RECURSIVE GroupExperiments(_, _, _)
\* for group in self.groups: experiments = experiments + group['experiments']
GroupExperiments(experiments, groups, g) ==
    IF g > Len(groups)
    THEN experiments
    ELSE GroupExperiments(experiments \o groups[g].experiments, groups, g + 1)

_get_all_experiments == GroupExperiments(project_config.experiments, project_config.groups, 1)

\* a bug: experiments += group['experiments'] extends the list of the service
\* in place
SelfExperimentsExtended(experiments, groups) == GroupExperiments(experiments, groups, 1)

\* The list self.experiments (the configuration's own list) after
\* _get_all_experiments: experiments + group['experiments'] builds a new list
\* and rebinds the local name, so the list of the service is as it was.
SelfExperiments(experiments, groups) == experiments

\* a bug: audiences is str(exp.get('audienceConditions')) when the key is absent
ExperimentAudiencesOfNone(exp, audience_id_map) ==
    IF "audienceConditions" \in DOMAIN exp
    THEN _get_experiment_audiences(exp.audienceConditions, audience_id_map)
    ELSE "None"

\* audiences = ''; if 'audienceConditions' in exp.keys(): audiences = <rendered>
ExperimentAudiences(exp, audience_id_map) ==
    IF "audienceConditions" \in DOMAIN exp
    THEN _get_experiment_audiences(exp.audienceConditions, audience_id_map)
    ELSE ""

RECURSIVE ExperimentsLoopTwoObjects(_, _, _, _)
\* a bug: a second OptimizelyExperiment is constructed for the id map
ExperimentsLoopTwoObjects(maps, all_experiments, i, n) ==
    IF i > Len(all_experiments)
    THEN Return(maps)
    ELSE LET exp == all_experiments[i]
             audiences == ExperimentAudiences(exp, project_config.audience_id_map)
             variations == _get_variations_map(exp, <<n, 0, i>>)
         IN IF variations.raised
            THEN variations
            ELSE ExperimentsLoopTwoObjects(
                     [experiments_key_map |->
                          DictSet(maps.experiments_key_map, exp.key,
                              OptimizelyExperiment(ExperimentOid(<<n, 0, i>>),
                                  exp.id, exp.key, variations.value, audiences)),
                      experiments_id_map |->
                          DictSet(maps.experiments_id_map, exp.id,
                              OptimizelyExperiment(ExperimentOid(<<n, 1, i>>),
                                  exp.id, exp.key, variations.value, audiences))],
                     all_experiments, i + 1, n)

RECURSIVE ExperimentsLoop(_, _, _, _)
\* for exp in all_experiments, from experiment i on; n is the get_config call
ExperimentsLoop(maps, all_experiments, i, n) ==
    IF i > Len(all_experiments)
    THEN Return(maps)
    ELSE LET exp == all_experiments[i]
             audiences == ExperimentAudiences(exp, project_config.audience_id_map)
             variations == _get_variations_map(exp, <<n, 0, i>>)
         IN IF variations.raised
            THEN variations
            ELSE LET optly_exp == OptimizelyExperiment(ExperimentOid(<<n, 0, i>>),
                                      exp.id, exp.key, variations.value, audiences)
                 IN ExperimentsLoop(
                        [experiments_key_map |->
                             DictSet(maps.experiments_key_map, exp.key, optly_exp),
                         experiments_id_map |->
                             DictSet(maps.experiments_id_map, exp.id, optly_exp)],
                        all_experiments, i + 1, n)

_get_experiments_maps(n) ==
    ExperimentsLoop([experiments_key_map |-> <<>>, experiments_id_map |-> <<>>],
                    _get_all_experiments, 1, n)

-----------------------------------------------------------------------------
(* _get_delivery_rules, _get_features_map *)

RECURSIVE DeliveryRulesLoopReversed(_, _, _, _, _, _)
\* a bug: each rule is inserted at the front of delivery_rules
DeliveryRulesLoopReversed(delivery_rules, experiments, audience_id_map, i, f, n) ==
    IF i > Len(experiments)
    THEN Return(delivery_rules)
    ELSE LET exp == experiments[i]
             audiences == ExperimentAudiences(exp, audience_id_map)
             variations == _get_variations_map(exp, <<n, f, i>>)
         IN IF variations.raised
            THEN variations
            ELSE DeliveryRulesLoopReversed(
                     <<OptimizelyExperiment(ExperimentOid(<<n, f, i>>), exp.id,
                           exp.key, variations.value, audiences)>> \o delivery_rules,
                     experiments, audience_id_map, i + 1, f, n)

RECURSIVE DeliveryRulesLoop(_, _, _, _, _, _)
\* for exp in rollout.experiments, from experiment i on; f is the feature's index
DeliveryRulesLoop(delivery_rules, experiments, audience_id_map, i, f, n) ==
    IF i > Len(experiments)
    THEN Return(delivery_rules)
    ELSE LET exp == experiments[i]
             audiences == ExperimentAudiences(exp, audience_id_map)
             variations == _get_variations_map(exp, <<n, f, i>>)
         IN IF variations.raised
            THEN variations
            ELSE DeliveryRulesLoop(
                     Append(delivery_rules,
                         OptimizelyExperiment(ExperimentOid(<<n, f, i>>), exp.id,
                             exp.key, variations.value, audiences)),
                     experiments, audience_id_map, i + 1, f, n)

_get_delivery_rules(rollout_id, roll_out_id_map, audience_id_map, f, n) ==
    IF rollout_id \notin DOMAIN roll_out_id_map
    THEN Raise("KeyError")
    ELSE DeliveryRulesLoop(<<>>, roll_out_id_map[rollout_id].experiments,
                           audience_id_map, 1, f, n)

RECURSIVE ExperimentRulesLoopRebuilt(_, _, _, _)
\* a bug: each experiment rule is a new OptimizelyExperiment with the fields of
\* the one in the id map
ExperimentRulesLoopRebuilt(rules, experiments_id_map, experiment_ids, i) ==
    IF i > Len(experiment_ids)
    THEN Return(rules)
    ELSE IF experiment_ids[i] \notin DOMAIN experiments_id_map
    THEN Raise("KeyError")
    ELSE LET optly_exp == [experiments_id_map[experiment_ids[i]] EXCEPT
                              !.oid = ExperimentOid(<<0, i>>)]
         IN ExperimentRulesLoopRebuilt(
                [experiment_rules |-> Append(rules.experiment_rules, optly_exp),
                 exp_map |-> DictSet(rules.exp_map, optly_exp.key, optly_exp)],
                experiments_id_map, experiment_ids, i + 1)

RECURSIVE ExperimentRulesLoop(_, _, _, _)
\* for experiment_id in feature.get('experimentIds', []), from id i on
ExperimentRulesLoop(rules, experiments_id_map, experiment_ids, i) ==
    IF i > Len(experiment_ids)
    THEN Return(rules)
    ELSE IF experiment_ids[i] \notin DOMAIN experiments_id_map
    THEN Raise("KeyError")
    ELSE LET optly_exp == experiments_id_map[experiment_ids[i]] IN
         ExperimentRulesLoop(
             [experiment_rules |-> Append(rules.experiment_rules, optly_exp),
              exp_map |-> DictSet(rules.exp_map, optly_exp.key, optly_exp)],
             experiments_id_map, experiment_ids, i + 1)

\* a bug: the test for the empty rollout id is missing
HasRolloutKey(feature) == "rolloutId" \in DOMAIN feature

\* if 'rolloutId' in feature.keys() and feature['rolloutId'] != '':
HasRollout(feature) == "rolloutId" \in DOMAIN feature /\ feature.rolloutId # ""

RECURSIVE FeaturesLoopRulesKept(_, _, _, _)
\* a bug: delivery_rules is not reset for each feature, so a feature without a
\* rollout has the delivery rules of the feature before it
FeaturesLoopRulesKept(features_map, experiments_id_map, f, n) ==
    LET feature_flags == project_config.feature_flags IN
    IF f > Len(feature_flags)
    THEN Return(features_map)
    ELSE LET feature == feature_flags[f]
             delivery_rules ==
                 IF HasRollout(feature)
                 THEN _get_delivery_rules(feature.rolloutId, project_config.rollout_id_map,
                                          project_config.audience_id_map, f, n)
                 ELSE IF f > 1
                 THEN Return(features_map[feature_flags[f - 1].key].deliveryRules)
                 ELSE Return(<<>>)
             rules == ExperimentRulesLoop([experiment_rules |-> <<>>, exp_map |-> <<>>],
                          experiments_id_map, DictGet(feature, "experimentIds", <<>>), 1)
         IN IF delivery_rules.raised
            THEN delivery_rules
            ELSE IF rules.raised
            THEN rules
            ELSE IF feature.key \notin DOMAIN feature_key_variable_key_to_variable_map
            THEN Raise("KeyError")
            ELSE FeaturesLoopRulesKept(
                     DictSet(features_map, feature.key,
                         OptimizelyFeature(feature.id, feature.key, rules.value.exp_map,
                             feature_key_variable_key_to_variable_map[feature.key],
                             rules.value.experiment_rules, delivery_rules.value)),
                     experiments_id_map, f + 1, n)

RECURSIVE FeaturesLoop(_, _, _, _)
\* for feature in self.feature_flags, from feature f on
FeaturesLoop(features_map, experiments_id_map, f, n) ==
    LET feature_flags == project_config.feature_flags IN
    IF f > Len(feature_flags)
    THEN Return(features_map)
    ELSE LET feature == feature_flags[f]
             delivery_rules ==
                 IF HasRollout(feature)
                 THEN _get_delivery_rules(feature.rolloutId, project_config.rollout_id_map,
                                          project_config.audience_id_map, f, n)
                 ELSE Return(<<>>)
             rules == ExperimentRulesLoop([experiment_rules |-> <<>>, exp_map |-> <<>>],
                          experiments_id_map, DictGet(feature, "experimentIds", <<>>), 1)
         IN IF delivery_rules.raised
            THEN delivery_rules
            ELSE IF rules.raised
            THEN rules
            ELSE IF feature.key \notin DOMAIN feature_key_variable_key_to_variable_map
            THEN Raise("KeyError")
            ELSE FeaturesLoop(
                     DictSet(features_map, feature.key,
                         OptimizelyFeature(feature.id, feature.key, rules.value.exp_map,
                             feature_key_variable_key_to_variable_map[feature.key],
                             rules.value.experiment_rules, delivery_rules.value)),
                     experiments_id_map, f + 1, n)

_get_features_map(experiments_id_map, n) == FeaturesLoop(<<>>, experiments_id_map, 1, n)

-----------------------------------------------------------------------------
(* _get_config_audiences, _get_config_events *)

\* a bug: the audiences with the placeholder id are not left out
_get_config_audiences_unfiltered ==
    LET NonEmptyId(audience) == audience.id # ""
        typed == SelectSeq(project_config.typed_audiences, NonEmptyId)
        NotTyped(audience) == audience.id \notin {typed[t].id : t \in DOMAIN typed}
        global_audiences == typed \o SelectSeq(project_config.audiences, NotTyped)
    IN [a \in DOMAIN global_audiences |->
           OptimizelyAudience(global_audiences[a].id, global_audiences[a].name,
                              global_audiences[a].conditions)]

\* a bug: the legacy audiences come first and shadow the typed ones
_get_config_audiences_legacy_first ==
    LET legacy == project_config.audiences
        NotLegacy(audience) ==
            audience.id # "" /\ audience.id \notin {legacy[t].id : t \in DOMAIN legacy}
        NotDummy(audience) == audience.id # "$opt_dummy_audience"
        global_audiences ==
            SelectSeq(legacy \o SelectSeq(project_config.typed_audiences, NotLegacy),
                      NotDummy)
    IN [a \in DOMAIN global_audiences |->
           OptimizelyAudience(global_audiences[a].id, global_audiences[a].name,
                              global_audiences[a].conditions)]

_get_config_audiences ==
    LET NonEmptyId(audience) == audience.id # ""
        typed == SelectSeq(project_config.typed_audiences, NonEmptyId)
        NotTyped(audience) == audience.id \notin {typed[t].id : t \in DOMAIN typed}
        filtered_audience == SelectSeq(project_config.audiences, NotTyped)
        NotDummy(audience) == audience.id # "$opt_dummy_audience"
        global_audiences == SelectSeq(typed \o filtered_audience, NotDummy)
    IN [a \in DOMAIN global_audiences |->
           OptimizelyAudience(global_audiences[a].id, global_audiences[a].name,
                              global_audiences[a].conditions)]

\* a bug: the events that no experiment uses are left out
_get_config_events_in_use ==
    LET InUse(event) == Len(event.experimentIds) > 0
        events == SelectSeq(project_config.events, InUse)
    IN [e \in DOMAIN events |->
           OptimizelyEvent(events[e].id, events[e].key, events[e].experimentIds)]

_get_config_events ==
    [e \in DOMAIN project_config.events |->
        OptimizelyEvent(project_config.events[e].id, project_config.events[e].key,
                        project_config.events[e].experimentIds)]

-----------------------------------------------------------------------------
(* get_config *)

\* get_config of a valid service, the n-th call on it: the maps, the features,
\* the audiences, attributes and events, then the OptimizelyConfig
AssembleConfig(n) ==
    LET maps == _get_experiments_maps(n) IN
    IF maps.raised
    THEN maps
    ELSE LET features_map == _get_features_map(maps.value.experiments_id_map, n) IN
         IF features_map.raised
         THEN features_map
         ELSE Return(OptimizelyConfig(
                  project_config.revision,
                  maps.value.experiments_key_map,
                  features_map.value,
                  project_config.datafile,
                  project_config.sdk_key,
                  project_config.environment_key,
                  [a \in DOMAIN project_config.attributes |->
                      OptimizelyAttribute(project_config.attributes[a])],
                  _get_config_events,
                  _get_config_audiences))

\* a bug: the validity check is missing, and the attributes __init__ never set
\* on an invalid service are read
get_config_unchecked(n) ==
    IF ~is_valid THEN Raise("AttributeError") ELSE AssembleConfig(n)

\* what the n-th call on the service, a get_config call, returns or raises
get_config(n) ==
    IF ~is_valid THEN Return(None) ELSE AssembleConfig(n)

-----------------------------------------------------------------------------
(* The project configurations the service is constructed with *)

\* the audience index of a rollout's own: other names than the global index has
RolloutAudienceIdMap ==
    [id \in {"1", "2"} |-> Audience(id, "Rollout" \o id, "rollout" \o id)]

\* which features declare experiment e1 (and e2, of the group; e404 is no experiment)
Links == {"none", "f1", "f1g", "both", "missing"}

ExperimentIds1(link) ==
    CASE link = "none" -> <<>>
      [] link = "f1" -> <<"e1">>
      [] link = "f1g" -> <<"e1", "e2">>
      [] link = "both" -> <<"e1">>
      [] link = "missing" -> <<"e1", "e404">>

ExperimentIds2(link) == IF link = "both" THEN <<"e1">> ELSE <<>>

\* the rolloutId of feature f1: no key, empty, a rollout, an id of no rollout
Rollouts == {"absent", "", "r1", "r404"}

\* A parsed ProjectConfig. Experiment e1 has the variation under study ("on",
\* with flag fe and the given overrides) and a disabled one with an override;
\* e2 belongs to a group, e3 and e4 to rollout r1. Feature f1 declares the first
\* nvars variables; feature f2 declares one variable under the id v1.
ProjectConfig(fe, overrides, nvars, link, rollout, cond) ==
    [class |-> "ProjectConfig",
     revision |-> "42",
     sdk_key |-> "sdk",
     environment_key |-> "env",
     datafile |-> "{datafile}",
     experiments |->
         <<Experiment("e1", "exp1", cond,
               <<Variation("var1", "on", fe, overrides),
                 Variation("var2", "off", "False", <<[id |-> "v1", value |-> "o1"]>>)>>)>>,
     groups |->
         <<[id |-> "g1",
            experiments |->
                <<Experiment("e2", "exp2", NoConditions,
                      <<Variation("var3", "g_on", "True", <<>>)>>)>>]>>,
     feature_flags |->
         <<Feature("f1", "feat1", ExperimentIds1(link), rollout, DeclaredVariables(nvars)),
           Feature("f2", "feat2", ExperimentIds2(link), "absent",
               <<[id |-> "v1", key |-> "k9", type |-> "boolean", defaultValue |-> "d9"]>>)>>,
     rollout_id_map |->
         [r \in {"r1"} |->
             [id |-> r,
              audience_id_map |-> RolloutAudienceIdMap,
              experiments |->
                  <<Experiment("e3", "rule1", L(<<S("1")>>),
                        <<Variation("var4", "r_on", "True",
                              <<[id |-> "v1", value |-> "o2"]>>)>>),
                    Experiment("e4", "everyone", NoConditions,
                        <<Variation("var5", "r_off", "False", <<>>),
                          Variation("var6", "r_all", "True", <<>>)>>)>>]],
     audiences |->
         <<Audience("1", "Name1", "cond1"), Audience("2", "Legacy2", "legacy2"),
           Audience("$opt_dummy_audience", "Dummy", "dummy")>>,
     typed_audiences |-> <<Audience("2", "Name2", "cond2")>>,
     audience_id_map |-> AudienceIdMap,
     attributes |-> <<[id |-> "a1", key |-> "attr1"]>>,
     events |-> <<[id |-> "ev1", key |-> "event1", experimentIds |-> <<"e1">>]>>]

BaseConditions == L(<<S("and"), S("1"), S("9")>>)

\* every flag and every override list on the variation under study
VariationInputs ==
    {ProjectConfig(fe, overrides, MaxVariables, "f1", "r1", BaseConditions) :
        fe \in FeatureEnabledValues, overrides \in OverrideLists}

\* every number of declared variables, every wiring of features to experiments
\* and rollouts
WiringInputs ==
    {ProjectConfig(fe, overrides, nvars, link, rollout, BaseConditions) :
        fe \in FeatureEnabledValues,
        overrides \in {<<>>, <<[id |-> "v1", value |-> "o1"]>>},
        nvars \in {0, MaxVariables}, link \in Links, rollout \in Rollouts}

ConditionInputs ==
    {ProjectConfig("True", <<>>, MaxVariables, "f1", "r1", cond) :
        cond \in {NoConditions, None, L(<<>>), L(<<S("not"), L(<<S("1"), S("2")>>)>>)}}

\* typed and legacy audience records: two ids in both, the placeholder id, and
\* the empty id
TypedAudiencePool ==
    {Audience("1", "Typed1", "typed1"), Audience("2", "Typed2", "typed2"),
     Audience("$opt_dummy_audience", "TypedDummy", "typed$"),
     Audience("", "TypedEmpty", "typed-")}

LegacyAudiencePool ==
    {Audience("1", "Legacy1", "legacy1"), Audience("2", "Legacy2", "legacy2"),
     Audience("$opt_dummy_audience", "LegacyDummy", "legacy$"),
     Audience("", "LegacyEmpty", "legacy-")}

\* the lists of up to MaxAudiences records of the pool; an id occurs once in a list
AudienceLists(pool) ==
    {list \in SeqsUpTo(pool, MaxAudiences) :
        \A i, j \in DOMAIN list : i # j => list[i].id # list[j].id}

\* every list of legacy audiences with every list of typed audiences
AudienceInputs ==
    {[ProjectConfig("True", <<>>, MaxVariables, "f1", "r1", BaseConditions)
         EXCEPT !.audiences = legacy, !.typed_audiences = typed] :
        legacy \in AudienceLists(LegacyAudiencePool),
        typed \in AudienceLists(TypedAudiencePool)}

\* attribute and event records; one event has no experiment ids
AttributePool == {[id |-> "a1", key |-> "attr1"], [id |-> "a2", key |-> "attr2"]}

EventPool ==
    {[id |-> "ev1", key |-> "event1", experimentIds |-> <<"e1">>],
     [id |-> "ev2", key |-> "event2", experimentIds |-> <<>>],
     [id |-> "ev3", key |-> "event3", experimentIds |-> <<"e2", "e1">>]}

\* every list of up to MaxRecords attributes with every such list of events
RecordInputs ==
    {[ProjectConfig("True", <<>>, MaxVariables, "f1", "r1", BaseConditions)
         EXCEPT !.attributes = attributes, !.events = events] :
        attributes \in SeqsUpTo(AttributePool, MaxRecords),
        events \in SeqsUpTo(EventPool, MaxRecords)}

\* objects that are no ProjectConfig
InvalidInputs == {[class |-> "dict", key |-> "invalid"], [class |-> "NoneType"]}

Inputs ==
    VariationInputs \cup WiringInputs \cup ConditionInputs \cup AudienceInputs
    \cup RecordInputs
    \cup InvalidInputs

-----------------------------------------------------------------------------
(* The service *)

\* isinstance(project_config, ProjectConfig)
IsProjectConfig(input) == input.class = "ProjectConfig"

\* OptimizelyConfigService.__init__: the attributes it sets on self. The lookup
\* maps of an invalid service are never set; they read as empty here and no
\* operation of an invalid service reads them.
__init__(input) ==
    IF ~IsProjectConfig(input)
    THEN [is_valid |-> FALSE,
          exp_id_to_feature_map |-> <<>>,
          feature_key_variable_key_to_variable_map |-> <<>>,
          feature_key_variable_id_to_variable_map |-> <<>>]
    ELSE [is_valid |-> TRUE] @@ _create_lookup_maps(input.feature_flags)

Constructed(input) ==
    LET self == __init__(input) IN
    /\ project_config = input
    /\ is_valid = self.is_valid
    /\ exp_id_to_feature_map = self.exp_id_to_feature_map
    /\ feature_key_variable_key_to_variable_map =
           self.feature_key_variable_key_to_variable_map
    /\ feature_key_variable_id_to_variable_map =
           self.feature_key_variable_id_to_variable_map
    /\ calls = 0
    /\ returned = <<>>
    /\ variables_map = NoCall
    /\ experiments_maps = NoCall
    /\ result_audience = NoCall
    /\ pc = "__init__"

Init ==
    /\ \E input \in Inputs : Constructed(input)
    /\ experiment_audience_condition = None

\* every experiment record of the configuration: own, of a group, of a rollout
RolloutExperiments ==
    UNION {Range(project_config.rollout_id_map[r].experiments) :
               r \in DOMAIN project_config.rollout_id_map}

AllExperimentRecords ==
    IF is_valid THEN Range(_get_all_experiments) \cup RolloutExperiments ELSE {}

\* the OptimizelyVariable objects in the variations of a ConfigView: the objects
\* whose value attribute _get_variables_map assigns
VariationVariables(view) ==
    LET experiments ==
            Range(view.experiments_map)
            \cup UNION {Range(view.features_map[f].deliveryRules) :
                           f \in DOMAIN view.features_map}
        variations == UNION {Range(experiment.variations_map) : experiment \in experiments}
    IN UNION {Range(variation.variables_map) : variation \in variations}

\* A registry object after a get_config call: an object has one value, so if the
\* call assigned another value to this very object (same identity), it has that
\* value now. The assignments go to the objects of the deep copies.
VariableAfter(variable, result) ==
    IF result.raised \/ result.value = None
    THEN variable
    ELSE LET written == {w \in VariationVariables(result.value) :
                            w.oid = variable.oid /\ w.value # variable.value}
         IN IF written = {}
            THEN variable
            ELSE [variable EXCEPT !.value = (CHOOSE w \in written : TRUE).value]

\* a registry (feature key -> variable key or id -> object) after the call
RegistryAfter(registry, result) ==
    [f \in DOMAIN registry |->
        [k \in DOMAIN registry[f] |-> VariableAfter(registry[f][k], result)]]

\* the configuration after the call: a valid service runs _get_all_experiments
ConfigAfter ==
    IF is_valid
    THEN [project_config EXCEPT
             !.experiments = SelfExperiments(@, project_config.groups)]
    ELSE project_config

\* a call of get_config
GetConfig ==
    /\ calls < MaxCalls
    /\ calls' = calls + 1
    /\ LET result == get_config(calls + 1) IN
       /\ returned' = Append(returned, result)
       /\ feature_key_variable_key_to_variable_map' =
              RegistryAfter(feature_key_variable_key_to_variable_map, result)
       /\ feature_key_variable_id_to_variable_map' =
              RegistryAfter(feature_key_variable_id_to_variable_map, result)
    /\ project_config' = ConfigAfter
    /\ pc' = "get_config"
    /\ UNCHANGED <<is_valid, exp_id_to_feature_map, variables_map, experiments_maps,
                   experiment_audience_condition, result_audience>>

Next == GetConfig

Spec == Init /\ [][Next]_vars

-----------------------------------------------------------------------------
(* The resolver on its own: _get_variables_map applied to one variation *)

InitVariables ==
    /\ \E input \in Inputs \ InvalidInputs : Constructed(input)
    /\ experiment_audience_condition = None

\* a direct call of _get_variables_map, as the unit tests make it
GetVariablesMap ==
    /\ pc = "__init__"
    /\ \E experiment \in AllExperimentRecords :
         \E v \in DOMAIN experiment.variations :
             variables_map' =
                 [experiment |-> experiment, variation |-> experiment.variations[v]]
                 @@ _get_variables_map(experiment, experiment.variations[v],
                                       <<calls + 1, 0, 0, 0>>)
    /\ calls' = calls + 1
    /\ pc' = "_get_variables_map"
    /\ UNCHANGED <<project_config, is_valid, exp_id_to_feature_map,
                   feature_key_variable_key_to_variable_map,
                   feature_key_variable_id_to_variable_map, returned,
                   experiments_maps, experiment_audience_condition, result_audience>>

NextVariables == GetVariablesMap

SpecVariables == InitVariables /\ [][NextVariables]_vars

-----------------------------------------------------------------------------
(* The experiment maps on their own: _get_experiments_maps called directly *)

\* experiment records with ids and keys of their own
ExperimentPool ==
    {Experiment("e1", "exp1", BaseConditions,
         <<Variation("var1", "on", "True", <<[id |-> "v1", value |-> "o1"]>>)>>),
     Experiment("e2", "exp2", NoConditions, <<Variation("var3", "g_on", "True", <<>>)>>),
     Experiment("e5", "exp5", L(<<S("2")>>), <<>>)}

\* every list of up to MaxRecords own experiments with every such list of
\* experiments of a group; a record may be in both
ExperimentListInputs ==
    {[ProjectConfig("True", <<>>, MaxVariables, "none", "r1", BaseConditions)
         EXCEPT !.experiments = own,
                !.groups = <<[id |-> "g1", experiments |-> grouped]>>] :
        own \in SeqsUpTo(ExperimentPool, MaxRecords),
        grouped \in SeqsUpTo(ExperimentPool, MaxRecords)}

InitMaps ==
    /\ \E input \in WiringInputs \cup ExperimentListInputs : Constructed(input)
    /\ experiment_audience_condition = None

\* a direct call of _get_experiments_maps, as the unit tests make it
GetExperimentsMaps ==
    /\ pc = "__init__"
    /\ experiments_maps' = _get_experiments_maps(calls + 1)
    /\ project_config' = ConfigAfter
    /\ calls' = calls + 1
    /\ pc' = "_get_experiments_maps"
    /\ UNCHANGED <<is_valid, exp_id_to_feature_map,
                   feature_key_variable_key_to_variable_map,
                   feature_key_variable_id_to_variable_map, returned, variables_map,
                   experiment_audience_condition, result_audience>>

NextMaps == GetExperimentsMaps

SpecMaps == InitMaps /\ [][NextMaps]_vars

-----------------------------------------------------------------------------
(* The renderer on its own: _get_experiment_audiences applied to a condition tree *)

\* operator tokens in both cases, three known audience ids and an unknown one
ScalarTexts == {"and", "or", "not", "AND", "1", "2", "3", "9"}
ScalarItems == {S(t) : t \in ScalarTexts}

\* nested condition lists
NestedItems ==
    {L(<<>>),
     L(<<S("1")>>),
     L(<<S("or"), S("1"), S("2")>>),
     L(<<S("not"), S("9")>>),
     L(<<S("2"), S("1")>>),
     L(<<S("and"), L(<<S("or"), S("1"), S("2")>>), S("9")>>)}

FlatLists == SeqsUpTo(ScalarItems, MaxLen)

\* the condition lists of the unit tests that are longer than MaxLen
ExampleTrees ==
    {L(<<S("and"), S("1"), S("2"), S("3")>>),
     L(<<S("and"), L(<<S("or"), S("1"), S("2")>>), S("3"), S("9")>>),
     L(<<S("not"), S("1"), S("2"), S("3")>>)}

\* condition trees: flat lists, flat lists with one item replaced by a nested
\* list, an operator followed by two nested lists, the examples, and None
ConditionTrees ==
    {L(items) : items \in FlatLists}
    \cup {L([items EXCEPT ![p] = nested]) :
             <<items, p, nested>> \in
                 {<<items, p, nested>> \in FlatLists \X (1..MaxLen) \X NestedItems :
                      p <= Len(items)}}
    \cup {L(<<first, n1, n2>>) :
             first \in ScalarItems, n1 \in NestedItems, n2 \in NestedItems}
    \cup ExampleTrees
    \cup {None}

\* a ProjectConfig with audiences and nothing else
AudiencesOnlyConfig ==
    [class |-> "ProjectConfig", revision |-> "42", sdk_key |-> "sdk",
     environment_key |-> "env", datafile |-> "{datafile}", experiments |-> <<>>,
     groups |-> <<>>, feature_flags |-> <<>>, rollout_id_map |-> <<>>,
     audiences |-> <<Audience("1", "Name1", "cond1")>>,
     typed_audiences |-> <<Audience("2", "Name2", "cond2")>>,
     audience_id_map |-> AudienceIdMap, attributes |-> <<>>, events |-> <<>>]

InitRender ==
    /\ Constructed(AudiencesOnlyConfig)
    /\ experiment_audience_condition \in ConditionTrees

\* a direct call of _get_experiment_audiences, as the unit tests make it
Render ==
    /\ pc = "__init__"
    /\ result_audience' =
           Return(_get_experiment_audiences(experiment_audience_condition,
                                            project_config.audience_id_map))
    /\ pc' = "_get_experiment_audiences"
    /\ UNCHANGED <<project_config, is_valid, exp_id_to_feature_map,
                   feature_key_variable_key_to_variable_map,
                   feature_key_variable_id_to_variable_map, calls, returned,
                   variables_map, experiments_maps, experiment_audience_condition>>

NextRender == Render

SpecRender == InitRender /\ [][NextRender]_vars

-----------------------------------------------------------------------------
(* Properties: what the configuration declares, read off project_config *)

\* the positions in feature_flags of the features that list the experiment id
DeclaringFeatures(experiment_id) ==
    {f \in DOMAIN project_config.feature_flags :
        experiment_id \in Range(project_config.feature_flags[f].experimentIds)}

MaxOf(set) == CHOOSE x \in set : \A y \in set : y <= x

\* the feature an experiment's variables resolve against: the last one listing it
OwningFeature(experiment_id) ==
    project_config.feature_flags[MaxOf(DeclaringFeatures(experiment_id))]

Declarations(feature) == DictGet(feature, "variables", <<>>)
DeclaredKeys(feature) == {Declarations(feature)[j].key : j \in DOMAIN Declarations(feature)}
DeclaredIds(feature) == {Declarations(feature)[j].id : j \in DOMAIN Declarations(feature)}

\* the default registry of a feature: per declared key, (id, key, type, default)
DeclaredDefaults(feature) ==
    [key \in DeclaredKeys(feature) |->
        LET j == CHOOSE j \in DOMAIN Declarations(feature) :
                     Declarations(feature)[j].key = key
        IN [id |-> Declarations(feature)[j].id, key |-> key,
            type |-> Declarations(feature)[j].type,
            value |-> Declarations(feature)[j].defaultValue]]

\* the four fields of the variables of a map, without their identities
FieldsOf(vmap) ==
    [k \in DOMAIN vmap |->
        [id |-> vmap[k].id, key |-> vmap[k].key, type |-> vmap[k].type,
         value |-> vmap[k].value]]

OverridesOf(variation) == DictGet(variation, "variables", <<>>)
OverriddenIds(variation) ==
    {OverridesOf(variation)[i].id : i \in DOMAIN OverridesOf(variation)}

\* the value of the last override entry of the variation for the variable id
LastOverrideValue(variation, id) ==
    OverridesOf(variation)[
        MaxOf({i \in DOMAIN OverridesOf(variation) : OverridesOf(variation)[i].id = id})
    ].value

FlagOf(variation) == DictGet(variation, "featureEnabled", "unset")

\* a direct _get_variables_map call was made, for an experiment some feature lists
ResolvedLinked ==
    /\ pc = "_get_variables_map"
    /\ DeclaringFeatures(variables_map.experiment.id) # {}

-----------------------------------------------------------------------------
(* C1 *)

\* C1: a service constructed with an object that is no ProjectConfig is invalid
\* in every state, and every get_config call on it, the first and the later
\* ones, returned None and raised nothing.
C1_InvalidServiceReturnsNone ==
    ~IsProjectConfig(project_config) =>
        /\ ~is_valid
        /\ \A n \in DOMAIN returned : returned[n] = Return(None)

C1_Witness ==
    /\ ~IsProjectConfig(project_config)
    /\ Len(returned) >= 2
    /\ returned[1] = Return(None)
    /\ returned[Len(returned)] = Return(None)

-----------------------------------------------------------------------------
(* C2 *)

\* C2: for a variation whose featureEnabled flag is False or unset, of an
\* experiment that a feature lists, _get_variables_map returns a map equal key
\* for key and field for field (id, key, type, value) to the default registry
\* of the feature, whatever overrides the variation stores.
C2_DisabledVariationHasDefaults ==
    (ResolvedLinked /\ FlagOf(variables_map.variation) # "True") =>
        /\ ~variables_map.raised
        /\ FieldsOf(variables_map.value) =
               DeclaredDefaults(OwningFeature(variables_map.experiment.id))

C2_Witness ==
    /\ ResolvedLinked
    /\ FlagOf(variables_map.variation) = "unset"
    /\ ~variables_map.raised
    /\ \E id \in OverriddenIds(variables_map.variation) :
           id \in DeclaredIds(OwningFeature(variables_map.experiment.id))
    /\ \E id \in OverriddenIds(variables_map.variation) :
           id \notin DeclaredIds(OwningFeature(variables_map.experiment.id))
    /\ Cardinality(DOMAIN variables_map.value) = MaxVariables

-----------------------------------------------------------------------------
(* C3 *)

\* the defaults of the feature, with the value of each variable that the
\* variation overrides replaced by the (last) override for it
DefaultsWithOverrides(feature, variation) ==
    [key \in DeclaredKeys(feature) |->
        IF DeclaredDefaults(feature)[key].id \in OverriddenIds(variation)
        THEN [DeclaredDefaults(feature)[key] EXCEPT
                 !.value = LastOverrideValue(variation, DeclaredDefaults(feature)[key].id)]
        ELSE DeclaredDefaults(feature)[key]]

\* C3: for a variation with featureEnabled True of an experiment that a feature
\* lists, the map _get_variables_map returns holds every declared variable,
\* with the override's value where the variation has an override entry for the
\* variable (id, key and type unchanged) and the default value otherwise; and
\* the call returns whenever every override id is declared on the feature.
C3_EnabledVariationHasOverrides ==
    (ResolvedLinked /\ FlagOf(variables_map.variation) = "True") =>
        /\ ~variables_map.raised =>
               FieldsOf(variables_map.value) =
                   DefaultsWithOverrides(OwningFeature(variables_map.experiment.id),
                                         variables_map.variation)
        /\ OverriddenIds(variables_map.variation) \subseteq
               DeclaredIds(OwningFeature(variables_map.experiment.id))
           => ~variables_map.raised

\* one variable overridden twice (the last value stands), the other at its default
C3_Witness ==
    /\ ResolvedLinked
    /\ FlagOf(variables_map.variation) = "True"
    /\ ~variables_map.raised
    /\ OverridesOf(variables_map.variation) =
           <<[id |-> "v1", value |-> "o1"], [id |-> "v1", value |-> "o2"]>>
    /\ "k1" \in DOMAIN variables_map.value
    /\ variables_map.value["k1"].value = "o2"
    /\ "k2" \in DOMAIN variables_map.value
    /\ variables_map.value["k2"].value = "d2"

-----------------------------------------------------------------------------
(* C4 *)

\* C4: when a variation with featureEnabled True carries an override whose
\* variable id is not declared on the owning feature, _get_variables_map skips
\* that override without raising and returns the map of the declared variables
\* with the other overrides applied.
C4_UndeclaredOverrideSkipped ==
    (/\ ResolvedLinked
     /\ FlagOf(variables_map.variation) = "True"
     /\ ~(OverriddenIds(variables_map.variation) \subseteq
              DeclaredIds(OwningFeature(variables_map.experiment.id))))
    => /\ ~variables_map.raised
       /\ FieldsOf(variables_map.value) =
              DefaultsWithOverrides(OwningFeature(variables_map.experiment.id),
                                    variables_map.variation)

-----------------------------------------------------------------------------
(* C5 *)

\* the ExperimentViews of a ConfigView: those of the experiments map and the
\* experiment rules of the features
ExperimentViews(view) ==
    {view.experiments_map[k] : k \in DOMAIN view.experiments_map}
    \cup UNION {Range(view.features_map[f].experimentRules) :
                   f \in DOMAIN view.features_map}

\* the get_config calls that returned a ConfigView
ViewCalls == {n \in DOMAIN returned : ~returned[n].raised /\ returned[n].value # None}

\* C5: in every ConfigView get_config returned, every VariationView of an
\* experiment that a feature lists has a variables map whose key set is exactly
\* the set of variable keys the feature declares, whatever the featureEnabled
\* flag and the override entries of the variation.
C5_VariationKeysAreDeclaredKeys ==
    \A n \in ViewCalls :
        \A experiment \in ExperimentViews(returned[n].value) :
            DeclaringFeatures(experiment.id) # {} =>
                \A v \in DOMAIN experiment.variations_map :
                    DOMAIN experiment.variations_map[v].variables_map =
                        DeclaredKeys(OwningFeature(experiment.id))

\* a view with an enabled variation that overrides a declared variable, and a
\* disabled one with an override
C5_Witness ==
    \E n \in ViewCalls :
        /\ "exp1" \in DOMAIN returned[n].value.experiments_map
        /\ DeclaringFeatures("e1") # {}
        /\ LET variations == returned[n].value.experiments_map["exp1"].variations_map
           IN /\ variations["on"].feature_enabled = "True"
              /\ DOMAIN variations["on"].variables_map = {"k1", "k2"}
              /\ variations["on"].variables_map["k1"].value = "o1"
              /\ DOMAIN variations["off"].variables_map = {"k1", "k2"}

-----------------------------------------------------------------------------
(* Properties of the renderer: what a condition list should read as *)

Rendered == pc = "_get_experiment_audiences"

IsList(tree) == "l" \in DOMAIN tree
IsScalar(item) == "s" \in DOMAIN item

\* the audience ids of the condition lists: three with a name and one without
AudienceIdTexts == {"1", "2", "3", "9"}
KnownAudienceIds == DOMAIN project_config.audience_id_map

IsAudienceId(item) == IsScalar(item) /\ item.s \in AudienceIdTexts
IsKnownAudienceId(item) == IsScalar(item) /\ item.s \in KnownAudienceIds

\* the text an operator token stands for
OperatorText(token) ==
    CASE token = "and" -> "AND"
      [] token = "or" -> "OR"
      [] token = "not" -> "NOT"

Quoted(text) == "\"" \o text \o "\""

\* the display text of an audience id: its name, or the id when it has none
DisplayText(id) ==
    IF id \in KnownAudienceIds THEN project_config.audience_id_map[id].name ELSE id

RECURSIVE Joined(_, _)
\* the texts in order, with the separator between neighbours
Joined(texts, separator) ==
    IF Len(texts) = 0
    THEN ""
    ELSE IF Len(texts) = 1
    THEN texts[1]
    ELSE texts[1] \o separator \o Joined(Tail(texts), separator)

TreeItems == experiment_audience_condition.l

\* the items after the first
RestItems == Tail(TreeItems)

-----------------------------------------------------------------------------
(* C6 *)

\* C6: a flat condition list that starts with "and" or "or" followed by n >= 1
\* ids of known audiences renders as the audiences' names, each in double
\* quotes, in list order, joined by " AND " or " OR ", with no leading operator.
C6_FlatListJoinedByOperator ==
    (/\ Rendered
     /\ IsList(experiment_audience_condition)
     /\ Len(TreeItems) >= 2
     /\ IsScalar(TreeItems[1])
     /\ TreeItems[1].s \in {"and", "or"}
     /\ \A i \in DOMAIN RestItems : IsKnownAudienceId(RestItems[i]))
    => result_audience =
           Return(Joined([i \in DOMAIN RestItems |->
                             Quoted(project_config.audience_id_map[RestItems[i].s].name)],
                         " " \o OperatorText(TreeItems[1].s) \o " "))

C6_Witness ==
    /\ Rendered
    /\ experiment_audience_condition = L(<<S("and"), S("1"), S("2"), S("3")>>)
    /\ result_audience = Return("\"Name1\" AND \"Name2\" AND \"Name3\"")

-----------------------------------------------------------------------------
(* C7 *)

\* the operator pending after a run of scalar items: the last operator token
\* among them, or OR when there is none
PendingAfter(items) ==
    LET tokens == {i \in DOMAIN items : items[i].s \in {"and", "or", "not"}}
    IN IF tokens = {} THEN "OR" ELSE OperatorText(items[MaxOf(tokens)].s)

\* a nested list after a run of scalar items: in parentheses, joined to what the
\* run rendered as by the pending operator, bare when it comes first and NOT is
\* not pending
NestedAfter(items, nested) ==
    LET before == _get_experiment_audiences(L(items), project_config.audience_id_map)
        inner == _get_experiment_audiences(nested, project_config.audience_id_map)
    IN IF before = "" /\ PendingAfter(items) # "NOT"
       THEN "(" \o inner \o ")"
       ELSE IF before = ""
       THEN "NOT (" \o inner \o ")"
       ELSE before \o " " \o PendingAfter(items) \o " (" \o inner \o ")"

AllScalar(items) == \A i \in DOMAIN items : IsScalar(items[i])

\* C7: a nested list is rendered recursively, wrapped in one pair of
\* parentheses and joined to the accumulated result by the pending operator of
\* the enclosing list; as the first operand with NOT not pending it has no
\* operator before it; an audience id after it is joined by the enclosing
\* list's pending operator.
C7_NestedListInParentheses ==
    (Rendered /\ IsList(experiment_audience_condition) /\ Len(TreeItems) >= 1) =>
        LET n == Len(TreeItems) IN
        /\ (IsList(TreeItems[n]) /\ AllScalar(SubSeq(TreeItems, 1, n - 1))) =>
               result_audience =
                   Return(NestedAfter(SubSeq(TreeItems, 1, n - 1), TreeItems[n]))
        /\ (/\ n >= 2
            /\ IsAudienceId(TreeItems[n])
            /\ IsList(TreeItems[n - 1])
            /\ AllScalar(SubSeq(TreeItems, 1, n - 2))) =>
               result_audience =
                   Return(NestedAfter(SubSeq(TreeItems, 1, n - 2), TreeItems[n - 1])
                          \o " " \o PendingAfter(SubSeq(TreeItems, 1, n - 2)) \o " "
                          \o Quoted(DisplayText(TreeItems[n].s)))

C7_Witness ==
    /\ Rendered
    /\ experiment_audience_condition =
           L(<<S("and"), L(<<S("or"), S("1"), S("2")>>), S("3")>>)
    /\ result_audience = Return("(\"Name1\" OR \"Name2\") AND \"Name3\"")

-----------------------------------------------------------------------------
(* C8 *)

IsOperand(item) == IsList(item) \/ IsAudienceId(item)

\* an operand as it reads on its own
OperandText(item) ==
    IF IsList(item)
    THEN "(" \o _get_experiment_audiences(item, project_config.audience_id_map) \o ")"
    ELSE Quoted(DisplayText(item.s))

\* C8: in a list that starts with "not" followed by operands (audience ids or
\* nested lists), the first operand is prefixed by "NOT " although nothing was
\* rendered before it, and so is every later one: ["not", A] renders as
\* NOT "Name1", never as the bare "Name1".
C8_LeadingNotIsRendered ==
    (/\ Rendered
     /\ IsList(experiment_audience_condition)
     /\ Len(TreeItems) >= 2
     /\ TreeItems[1] = S("not")
     /\ \A i \in DOMAIN RestItems : IsOperand(RestItems[i]))
    => result_audience =
           Return("NOT " \o Joined([i \in DOMAIN RestItems |-> OperandText(RestItems[i])],
                                   " NOT "))

C8_Witness ==
    /\ Rendered
    /\ experiment_audience_condition = L(<<S("not"), S("1")>>)
    /\ result_audience = Return("NOT \"Name1\"")

-----------------------------------------------------------------------------
(* C9 *)

\* C9: a list of audience ids without any operator token renders a single id as
\* its quoted name with no leading operator, and two or more ids as their
\* quoted names joined by " OR " in list order.
C9_BareIdsJoinedByOr ==
    (/\ Rendered
     /\ IsList(experiment_audience_condition)
     /\ Len(TreeItems) >= 1
     /\ \A i \in DOMAIN TreeItems : IsAudienceId(TreeItems[i]))
    => result_audience =
           Return(Joined([i \in DOMAIN TreeItems |-> Quoted(DisplayText(TreeItems[i].s))],
                         " OR "))

C9_Witness ==
    /\ Rendered
    /\ experiment_audience_condition = L(<<S("3"), S("1"), S("2")>>)
    /\ result_audience = Return("\"Name3\" OR \"Name1\" OR \"Name2\"")

-----------------------------------------------------------------------------
(* C10 *)

\* the audience-id index completed with an audience named by its own id for
\* every scalar that has no entry
IndexWithRawNames ==
    [id \in ScalarTexts |->
        IF id \in KnownAudienceIds
        THEN project_config.audience_id_map[id]
        ELSE Audience(id, id, "")]

RECURSIVE Mentions(_, _)
\* the condition tree has the scalar somewhere, at any depth
Mentions(tree, text) ==
    IF IsList(tree)
    THEN \E i \in DOMAIN tree.l : Mentions(tree.l[i], text)
    ELSE IsScalar(tree) /\ tree.s = text

\* C10: rendering a condition tree with an audience id that has no entry in the
\* audience-id index does not raise, and gives the text that the same tree
\* gives against an index in which that id is named by the id itself: the raw
\* id in double quotes, with the operator prefix and the other operands as usual.
C10_UnknownIdRenderedRaw ==
    (Rendered /\ Mentions(experiment_audience_condition, "9")) =>
        /\ ~result_audience.raised
        /\ result_audience.value =
               _get_experiment_audiences(experiment_audience_condition, IndexWithRawNames)
        /\ experiment_audience_condition = L(<<S("9")>>) =>
               result_audience.value = "\"9\""

C10_Witness ==
    /\ Rendered
    /\ experiment_audience_condition = L(<<S("and"), S("1"), S("9")>>)
    /\ result_audience = Return("\"Name1\" AND \"9\"")

-----------------------------------------------------------------------------
(* C11 *)

\* the experiment record has no audience conditions: no audienceConditions
\* entry, or None, or an empty list
HasNoConditions(exp) ==
    \/ "audienceConditions" \notin DOMAIN exp
    \/ exp.audienceConditions = None
    \/ exp.audienceConditions = L(<<>>)

\* the experiment records get_config builds the experiments maps from
ListedExperiments == Range(_get_all_experiments)

\* C11: the renderer gives the empty string for a condition tree that is None
\* or empty, and an experiment record without an audienceConditions entry has
\* the empty string as the audiences of its ExperimentView: in every ConfigView
\* get_config returned, the view of such an experiment has audiences "".
C11_NoConditionsRenderEmpty ==
    \A n \in ViewCalls :
        \A exp \in ListedExperiments :
            HasNoConditions(exp) =>
                returned[n].value.experiments_map[exp.key].audiences = ""

\* a view of a configuration whose experiment e1 has no audienceConditions entry
C11_Witness ==
    \E n \in ViewCalls :
        /\ "audienceConditions" \notin DOMAIN project_config.experiments[1]
        /\ returned[n].value.experiments_map["exp1"].audiences = ""

-----------------------------------------------------------------------------
(* C12 *)

PlaceholderId == "$opt_dummy_audience"

IdsOf(list) == {list[i].id : i \in DOMAIN list}

\* C12: the audiences of a ConfigView get_config returned never hold an
\* AudienceView with the placeholder id $opt_dummy_audience, whether the
\* typed audiences, the legacy audiences or both have a record with that id.
C12_PlaceholderAudienceLeftOut ==
    \A n \in ViewCalls : PlaceholderId \notin IdsOf(returned[n].value.audiences)

\* a view of a configuration with the placeholder in both lists and another
\* audience that is in the view
C12_Witness ==
    \E n \in ViewCalls :
        /\ PlaceholderId \in IdsOf(project_config.typed_audiences)
        /\ PlaceholderId \in IdsOf(project_config.audiences)
        /\ returned[n].value.audiences = <<OptimizelyAudience("1", "Legacy1", "legacy1")>>

-----------------------------------------------------------------------------
(* C13 *)

\* the ids that a typed and a legacy audience share and that the view lists
SharedAudienceIds ==
    (IdsOf(project_config.typed_audiences) \cap IdsOf(project_config.audiences))
    \ {"", PlaceholderId}

\* the typed audience with the id
TypedAudience(id) ==
    CHOOSE audience \in Range(project_config.typed_audiences) : audience.id = id

\* the typed audiences with an id, then the legacy audiences with an id no such
\* typed audience has, each list in its order, without the placeholder
TypedThenUnseenLegacy ==
    LET Listed(audience) == audience.id # "" /\ audience.id # PlaceholderId
        typed == SelectSeq(project_config.typed_audiences, Listed)
        Unseen(audience) ==
            /\ audience.id # PlaceholderId
            /\ \A t \in DOMAIN project_config.typed_audiences :
                   \/ project_config.typed_audiences[t].id = ""
                   \/ project_config.typed_audiences[t].id # audience.id
    IN typed \o SelectSeq(project_config.audiences, Unseen)

\* C13: when a typed and a legacy audience share an id, the audiences of the
\* ConfigView hold exactly one AudienceView with that id, and it has the typed
\* record's name and conditions; the list is the typed audiences with a
\* non-empty id in their order, then the legacy audiences whose id is not among
\* them in their order (the placeholder left out, per C12).
C13_TypedShadowsLegacy ==
    \A n \in ViewCalls :
        LET audiences == returned[n].value.audiences IN
        /\ \A id \in SharedAudienceIds :
               \E a \in DOMAIN audiences :
                   /\ audiences[a].id = id
                   /\ audiences[a].name = TypedAudience(id).name
                   /\ audiences[a].conditions = TypedAudience(id).conditions
                   /\ \A b \in DOMAIN audiences : audiences[b].id = id => b = a
        /\ Len(audiences) = Len(TypedThenUnseenLegacy)
        /\ \A a \in DOMAIN audiences :
               /\ audiences[a].id = TypedThenUnseenLegacy[a].id
               /\ audiences[a].name = TypedThenUnseenLegacy[a].name
               /\ audiences[a].conditions = TypedThenUnseenLegacy[a].conditions

\* typed audiences 2 and 1, legacy audiences 1 and the one without an id
C13_Witness ==
    \E n \in ViewCalls :
        /\ project_config.typed_audiences =
               <<Audience("2", "Typed2", "typed2"), Audience("1", "Typed1", "typed1")>>
        /\ project_config.audiences =
               <<Audience("1", "Legacy1", "legacy1"), Audience("", "LegacyEmpty", "legacy-")>>
        /\ returned[n].value.audiences =
               <<OptimizelyAudience("2", "Typed2", "typed2"),
                 OptimizelyAudience("1", "Typed1", "typed1"),
                 OptimizelyAudience("", "LegacyEmpty", "legacy-")>>

-----------------------------------------------------------------------------
(* C14 *)

\* the fields of the view objects, without the objects' identities
VariableFields(vmap) ==
    [k \in DOMAIN vmap |->
        [id |-> vmap[k].id, key |-> vmap[k].key, type |-> vmap[k].type,
         value |-> vmap[k].value]]

VariationFields(variations_map) ==
    [k \in DOMAIN variations_map |->
        [variations_map[k] EXCEPT !.variables_map = VariableFields(@)]]

ExperimentFields(experiment) ==
    [id |-> experiment.id, key |-> experiment.key, audiences |-> experiment.audiences,
     variations_map |-> VariationFields(experiment.variations_map)]

FeatureFields(feature) ==
    [id |-> feature.id, key |-> feature.key,
     experimentRules |->
         [i \in DOMAIN feature.experimentRules |->
             ExperimentFields(feature.experimentRules[i])],
     deliveryRules |->
         [i \in DOMAIN feature.deliveryRules |-> ExperimentFields(feature.deliveryRules[i])],
     experiments_map |->
         [k \in DOMAIN feature.experiments_map |->
             ExperimentFields(feature.experiments_map[k])],
     variables_map |-> VariableFields(feature.variables_map)]

ConfigFields(view) ==
    [view EXCEPT
        !.experiments_map = [k \in DOMAIN @ |-> ExperimentFields(@[k])],
        !.features_map = [k \in DOMAIN @ |-> FeatureFields(@[k])]]

\* C14: on a valid service, all get_config calls end the same way, and the
\* ConfigViews they return are field-wise equal (revision, experiments map,
\* features map, audiences, attributes, events and the rest): a call changes
\* nothing that a later call reads.
C14_GetConfigIdempotent ==
    is_valid =>
        \A n, m \in DOMAIN returned :
            /\ returned[n].raised = returned[m].raised
            /\ ~returned[n].raised =>
                   ConfigFields(returned[n].value) = ConfigFields(returned[m].value)

\* two calls that returned two views (different objects) with equal fields, of a
\* configuration whose enabled variation overrides a declared variable
C14_Witness ==
    /\ ViewCalls = {1, 2}
    /\ returned[1].value # returned[2].value
    /\ ConfigFields(returned[1].value) = ConfigFields(returned[2].value)
    /\ DOMAIN returned[2].value.experiments_map["exp1"].variations_map["on"]
           .variables_map = {"k1", "k2"}
    /\ returned[2].value.experiments_map["exp1"].variations_map["on"]
           .variables_map["k1"].value = "o1"
    /\ returned[2].value.experiments_map["exp1"].variations_map["off"]
           .variables_map["k1"].value = "d1"

-----------------------------------------------------------------------------
(* C20 *)

\* C20: no step of the service changes the configuration it was constructed
\* with: after any number of get_config calls its experiments list (not
\* extended by the experiments of the groups), groups, feature flags,
\* rollouts, audiences, attributes and events are the records they were, in
\* the same order.
C20_ConfigurationUnchanged == [][project_config' = project_config]_vars

\* after two calls that listed the group's experiment in their views, the
\* experiments list still holds the one own experiment
C20_Witness ==
    /\ ViewCalls = {1, 2}
    /\ Len(project_config.groups) = 1
    /\ \A n \in ViewCalls : "exp2" \in DOMAIN returned[n].value.experiments_map
    /\ Len(project_config.experiments) = 1
    /\ project_config.experiments[1].id = "e1"

-----------------------------------------------------------------------------
(* C15 *)

\* the FeatureView of the f-th feature flag in a ConfigView
FeatureView(view, f) == view.features_map[project_config.feature_flags[f].key]

\* C15: in every ConfigView, the experimentRules of each feature are, in the
\* order of the feature's experimentIds, the ExperimentViews with those ids,
\* and each is the very object the ConfigView's experiments map holds under its
\* key (same identity, not a copy); the feature's experiments_map maps the key
\* of each of them, and nothing else, to that same object.
C15_ExperimentRulesAreMapObjects ==
    \A n \in ViewCalls :
        \A f \in DOMAIN project_config.feature_flags :
            LET view == returned[n].value
                ids == project_config.feature_flags[f].experimentIds
                rules == FeatureView(view, f).experimentRules
                alias == FeatureView(view, f).experiments_map
            IN /\ Len(rules) = Len(ids)
               /\ \A i \in DOMAIN rules :
                      /\ rules[i].id = ids[i]
                      /\ rules[i].key \in DOMAIN view.experiments_map
                      /\ rules[i] = view.experiments_map[rules[i].key]
                      /\ rules[i].key \in DOMAIN alias
                      /\ alias[rules[i].key] = rules[i]
               /\ DOMAIN alias = {rules[i].key : i \in DOMAIN rules}

\* a view whose first feature lists the own experiment and the group's
C15_Witness ==
    \E n \in ViewCalls :
        /\ project_config.feature_flags[1].experimentIds = <<"e1", "e2">>
        /\ FeatureView(returned[n].value, 1).experimentRules =
               <<returned[n].value.experiments_map["exp1"],
                 returned[n].value.experiments_map["exp2"]>>
        /\ DOMAIN FeatureView(returned[n].value, 1).experiments_map = {"exp1", "exp2"}

-----------------------------------------------------------------------------
(* C16 *)

\* the feature record names a rollout
NamesRollout(feature) ==
    IF "rolloutId" \in DOMAIN feature THEN feature.rolloutId # "" ELSE FALSE

\* the view is of the experiment record: its id, its key, and one variation
\* under the key of each variation of the record
IsViewOf(experiment_view, exp) ==
    /\ experiment_view.id = exp.id
    /\ experiment_view.key = exp.key
    /\ DOMAIN experiment_view.variations_map =
           {exp.variations[v].key : v \in DOMAIN exp.variations}
    /\ \A v \in DOMAIN exp.variations :
           /\ experiment_view.variations_map[exp.variations[v].key].key =
                  exp.variations[v].key
           /\ experiment_view.variations_map[exp.variations[v].key].id =
                  exp.variations[v].id

\* C16: in every ConfigView, a feature with a non-empty rollout id has one
\* delivery rule per experiment of that rollout, in the rollout's order, each
\* with the id and key of its rollout experiment and its variations under
\* their keys.
C16_DeliveryRulesFollowRollout ==
    \A n \in ViewCalls :
        \A f \in DOMAIN project_config.feature_flags :
            NamesRollout(project_config.feature_flags[f]) =>
                LET rules == FeatureView(returned[n].value, f).deliveryRules
                    experiments ==
                        project_config.rollout_id_map[
                            project_config.feature_flags[f].rolloutId].experiments
                IN /\ Len(rules) = Len(experiments)
                   /\ \A i \in DOMAIN rules : IsViewOf(rules[i], experiments[i])

\* a view whose first feature has rollout r1 with its two rules
C16_Witness ==
    \E n \in ViewCalls :
        /\ NamesRollout(project_config.feature_flags[1])
        /\ LET rules == FeatureView(returned[n].value, 1).deliveryRules
           IN /\ Len(rules) = 2
              /\ rules[1].key = "rule1"
              /\ DOMAIN rules[1].variations_map = {"r_on"}
              /\ rules[2].key = "everyone"
              /\ DOMAIN rules[2].variations_map = {"r_off", "r_all"}

-----------------------------------------------------------------------------
(* C17 *)

\* C17: in every ConfigView, a feature whose record has no rolloutId entry or
\* an empty one has an empty deliveryRules list, and a feature with no
\* experiment ids has an empty experimentRules list and an empty experiments_map.
C17_NoRolloutNoExperiments ==
    \A n \in ViewCalls :
        \A f \in DOMAIN project_config.feature_flags :
            /\ ~NamesRollout(project_config.feature_flags[f]) =>
                   Len(FeatureView(returned[n].value, f).deliveryRules) = 0
            /\ Len(project_config.feature_flags[f].experimentIds) = 0 =>
                   /\ Len(FeatureView(returned[n].value, f).experimentRules) = 0
                   /\ DOMAIN FeatureView(returned[n].value, f).experiments_map = {}

\* a view whose first feature has rollout r1 and rules, and whose second has no
\* rolloutId entry and no experiment ids
C17_Witness ==
    \E n \in ViewCalls :
        /\ NamesRollout(project_config.feature_flags[1])
        /\ Len(FeatureView(returned[n].value, 1).deliveryRules) = 2
        /\ "rolloutId" \notin DOMAIN project_config.feature_flags[2]
        /\ project_config.feature_flags[2].experimentIds = <<>>
        /\ Len(FeatureView(returned[n].value, 2).deliveryRules) = 0
        /\ Len(FeatureView(returned[n].value, 2).experimentRules) = 0

-----------------------------------------------------------------------------
(* C18 *)

\* the ExperimentViews of a ConfigView with the delivery rules of its features
DeliveryRuleViews(view) ==
    UNION {Range(view.features_map[f].deliveryRules) : f \in DOMAIN view.features_map}

\* C18: in every ConfigView, an experiment whose id no feature lists has an
\* empty variables map in every variation, whatever the variation's
\* featureEnabled flag and overrides; so have the delivery rules (rollout
\* experiments), also when the feature with the rollout declares variables.
C18_UnlinkedExperimentHasNoVariables ==
    \A n \in ViewCalls :
        \A experiment \in
                Range(returned[n].value.experiments_map)
                \cup DeliveryRuleViews(returned[n].value) :
            DeclaringFeatures(experiment.id) = {} =>
                \A v \in DOMAIN experiment.variations_map :
                    DOMAIN experiment.variations_map[v].variables_map = {}

\* a view of a configuration whose experiment e1 is listed by no feature and has
\* an enabled variation with an override, and whose first feature declares
\* variables and has delivery rules with an enabled variation with an override
C18_Witness ==
    \E n \in ViewCalls :
        /\ DeclaringFeatures("e1") = {}
        /\ FlagOf(project_config.experiments[1].variations[1]) = "True"
        /\ Len(project_config.experiments[1].variations[1].variables) > 0
        /\ DOMAIN returned[n].value.experiments_map["exp1"].variations_map["on"]
               .variables_map = {}
        /\ DOMAIN FeatureView(returned[n].value, 1).variables_map = {"k1", "k2"}
        /\ Len(FeatureView(returned[n].value, 1).deliveryRules) = 2
        /\ DOMAIN FeatureView(returned[n].value, 1).deliveryRules[1]
               .variations_map["r_on"].variables_map = {}

-----------------------------------------------------------------------------
(* C19 *)

\* the keys of the own experiments and of the experiments of the groups
OwnAndGroupKeys ==
    {project_config.experiments[i].key : i \in DOMAIN project_config.experiments}
    \cup UNION {{project_config.groups[g].experiments[i].key :
                    i \in DOMAIN project_config.groups[g].experiments} :
                g \in DOMAIN project_config.groups}

\* the keys of the experiments of the rollouts
RolloutKeys == {exp.key : exp \in RolloutExperiments}

\* C19: the experiments map of every ConfigView has an entry under the key of
\* every own experiment and of every experiment of every group, each the view
\* with that key, and no other entry; the experiments that only rollouts hold
\* are not in it.
C19_ExperimentsMapKeys ==
    \A n \in ViewCalls :
        /\ DOMAIN returned[n].value.experiments_map = OwnAndGroupKeys
        /\ \A key \in OwnAndGroupKeys : returned[n].value.experiments_map[key].key = key
        /\ \A key \in RolloutKeys \ OwnAndGroupKeys :
               key \notin DOMAIN returned[n].value.experiments_map

\* a view with the own experiment, the group's experiment, and the rollout's
\* experiments as delivery rules only
C19_Witness ==
    \E n \in ViewCalls :
        /\ DOMAIN returned[n].value.experiments_map = {"exp1", "exp2"}
        /\ RolloutKeys = {"rule1", "everyone"}
        /\ Len(FeatureView(returned[n].value, 1).deliveryRules) = 2

-----------------------------------------------------------------------------
(* C21 *)

\* the identities of the OptimizelyVariable objects of the service's registries
RegistryOids ==
    UNION {{feature_key_variable_key_to_variable_map[f][k].oid :
               k \in DOMAIN feature_key_variable_key_to_variable_map[f]} :
           f \in DOMAIN feature_key_variable_key_to_variable_map}
    \cup UNION {{feature_key_variable_id_to_variable_map[f][k].oid :
                    k \in DOMAIN feature_key_variable_id_to_variable_map[f]} :
                f \in DOMAIN feature_key_variable_id_to_variable_map}

\* the identities of the OptimizelyVariable objects a ConfigView reaches through
\* the variables maps of its features
FeatureVariableOids(view) ==
    UNION {{view.features_map[f].variables_map[k].oid :
               k \in DOMAIN view.features_map[f].variables_map} :
           f \in DOMAIN view.features_map}

\* the identities of the objects a ConfigView reaches: its ExperimentViews, and
\* the OptimizelyVariable objects of its variations and of its features
ViewOids(view) ==
    {experiment.oid :
        experiment \in ExperimentViews(view) \cup DeliveryRuleViews(view)}
    \cup {variable.oid : variable \in VariationVariables(view)}
    \cup FeatureVariableOids(view)

\* C21: no object reachable from a ConfigView that get_config returned is held
\* in the service's lookup maps, and none is reachable from the ConfigView of
\* another get_config call.
C21_ViewSharesNoObject ==
    \A n \in ViewCalls :
        /\ ViewOids(returned[n].value) \cap RegistryOids = {}
        /\ \A m \in ViewCalls \ {n} :
               ViewOids(returned[n].value) \cap ViewOids(returned[m].value) = {}

-----------------------------------------------------------------------------
(* C22 *)

\* C22: the attributes and the events of every ConfigView are one view per
\* attribute record and per event record of the configuration, in the order of
\* the records, with the record's id and key (and the event's list of
\* experiment ids): none left out, none added, none moved.
C22_AttributesAndEventsCopied ==
    \A n \in ViewCalls :
        LET view == returned[n].value IN
        /\ Len(view.attributes) = Len(project_config.attributes)
        /\ \A a \in DOMAIN view.attributes :
               /\ view.attributes[a].id = project_config.attributes[a].id
               /\ view.attributes[a].key = project_config.attributes[a].key
        /\ Len(view.events) = Len(project_config.events)
        /\ \A e \in DOMAIN view.events :
               /\ view.events[e].id = project_config.events[e].id
               /\ view.events[e].key = project_config.events[e].key
               /\ view.events[e].experimentIds = project_config.events[e].experimentIds

\* a view of two attributes and two events, the first event without experiments
C22_Witness ==
    \E n \in ViewCalls :
        /\ Len(project_config.attributes) = 2
        /\ project_config.attributes[1].id = "a2"
        /\ project_config.attributes[2].id = "a1"
        /\ returned[n].value.attributes =
               <<OptimizelyAttribute([id |-> "a2", key |-> "attr2"]),
                 OptimizelyAttribute([id |-> "a1", key |-> "attr1"])>>
        /\ returned[n].value.events =
               <<OptimizelyEvent("ev2", "event2", <<>>),
                 OptimizelyEvent("ev3", "event3", <<"e2", "e1">>)>>

-----------------------------------------------------------------------------
(* C23 *)

\* an operator token in lower case; any other text as it is
LowerCased(text) ==
    CASE text \in {"and", "And", "AND"} -> "and"
      [] text \in {"or", "Or", "OR"} -> "or"
      [] text \in {"not", "Not", "NOT"} -> "not"
      [] OTHER -> text

RECURSIVE WithLowerCaseOperators(_)
\* the condition tree with every operator token in lower case, at any depth
WithLowerCaseOperators(tree) ==
    IF IsList(tree)
    THEN L([i \in DOMAIN tree.l |-> WithLowerCaseOperators(tree.l[i])])
    ELSE IF IsScalar(tree)
    THEN S(LowerCased(tree.s))
    ELSE tree

\* C23: the renderer takes and, or and not as operators in any letter case: a
\* condition tree renders as the same tree with its operator tokens in lower
\* case does, so a token such as "AND" sets the pending operator and is never
\* rendered as a quoted operand.
C23_OperatorsInAnyCase ==
    Rendered =>
        result_audience =
            Return(_get_experiment_audiences(
                       WithLowerCaseOperators(experiment_audience_condition),
                       project_config.audience_id_map))

-----------------------------------------------------------------------------
(* C24 *)

\* _get_experiments_maps was called and returned its two maps
MapsReturned == pc = "_get_experiments_maps" /\ ~experiments_maps.raised

-----------------------------------------------------------------------------
(* C25 *)

\* the experiment ids that the features list
ListedExperimentIds ==
    UNION {Range(project_config.feature_flags[f].experimentIds) :
               f \in DOMAIN project_config.feature_flags}

\* C25: after construction and after every get_config call of a valid service,
\* each descriptor of each feature's key-indexed and id-indexed variable
\* registry has the default value its declaration gives, and the index from
\* experiment ids to features is as construction left it: the ids the features
\* list, each with the last feature that lists it.
C25_LookupMapsNeverWritten ==
    is_valid =>
        /\ \A f \in DOMAIN project_config.feature_flags :
               LET feature == project_config.feature_flags[f] IN
               \A j \in DOMAIN Declarations(feature) :
                   LET declaration == Declarations(feature)[j] IN
                   /\ feature_key_variable_key_to_variable_map[feature.key]
                          [declaration.key].value = declaration.defaultValue
                   /\ feature_key_variable_id_to_variable_map[feature.key]
                          [declaration.id].value = declaration.defaultValue
        /\ DOMAIN exp_id_to_feature_map = ListedExperimentIds
        /\ \A id \in ListedExperimentIds : exp_id_to_feature_map[id] = OwningFeature(id)

\* after two calls whose views show an override in an enabled variation, the
\* registry still has the default
C25_Witness ==
    /\ ViewCalls = {1, 2}
    /\ DOMAIN returned[2].value.experiments_map["exp1"].variations_map["on"]
           .variables_map = {"k1", "k2"}
    /\ returned[2].value.experiments_map["exp1"].variations_map["on"]
           .variables_map["k1"].value = "o2"
    /\ feature_key_variable_key_to_variable_map["feat1"]["k1"].value = "d1"
    /\ feature_key_variable_id_to_variable_map["feat1"]["v1"].value = "d1"
    /\ exp_id_to_feature_map["e1"].key = "feat1"

-----------------------------------------------------------------------------
(* C26 *)

\* the identities of the descriptors in a variables map
DescriptorOids(vmap) == {vmap[k].oid : k \in DOMAIN vmap}

\* the ExperimentViews of the ConfigView of call n, each with the call
ExperimentViewsOfCall(n) ==
    ExperimentViews(returned[n].value) \cup DeliveryRuleViews(returned[n].value)

\* C26: the descriptors in the variables map of one VariationView are objects
\* of their own: none of them is in the variables map of another VariationView
\* (of the same experiment, of another experiment, or of the view of another
\* get_config call), and none is in the feature's registry.
C26_DescriptorsNotShared ==
    \A n \in ViewCalls : \A one \in ExperimentViewsOfCall(n) :
        \A v \in DOMAIN one.variations_map :
            /\ DescriptorOids(one.variations_map[v].variables_map) \cap RegistryOids = {}
            /\ \A m \in ViewCalls : \A other \in ExperimentViewsOfCall(m) :
                   \A w \in DOMAIN other.variations_map :
                       (one.oid # other.oid \/ v # w) =>
                           DescriptorOids(one.variations_map[v].variables_map)
                           \cap DescriptorOids(other.variations_map[w].variables_map) = {}

\* two calls, each with two variations of an experiment that have descriptors
\* for the same variable: four different objects
C26_Witness ==
    /\ ViewCalls = {1, 2}
    /\ \A n \in ViewCalls :
           \A v \in {"on", "off"} :
               "k1" \in DOMAIN returned[n].value.experiments_map["exp1"]
                                   .variations_map[v].variables_map
    /\ Cardinality({returned[n].value.experiments_map["exp1"].variations_map[v]
                        .variables_map["k1"].oid : n \in {1, 2}, v \in {"on", "off"}}) = 4

-----------------------------------------------------------------------------
(* C27 *)

\* the audiences text of an experiment record against an audience index
AudiencesAgainst(exp, audience_id_map) ==
    IF "audienceConditions" \in DOMAIN exp
    THEN _get_experiment_audiences(exp.audienceConditions, audience_id_map)
    ELSE ""

-----------------------------------------------------------------------------
(* C28 *)

\* the operator pending after a run of items of one list: the last operator
\* token among the scalar items of the run itself, or OR when there is none
PendingOf(items) ==
    LET tokens == {i \in DOMAIN items :
                      IsScalar(items[i]) /\ items[i].s \in {"and", "or", "not"}}
    IN IF tokens = {} THEN "OR" ELSE OperatorText(items[MaxOf(tokens)].s)

\* C28: in one condition list the pending operator persists: an operand (an
\* audience id or a nested list) that comes after something was rendered is
\* joined to it by the last operator token seen before it in the same list,
\* or by OR if there was none; the operator tokens inside a nested list do
\* not count for the list around it. So ["not", A, B] is NOT "A" NOT "B".
C28_PendingOperatorPersists ==
    (Rendered /\ IsList(experiment_audience_condition) /\ Len(TreeItems) >= 2) =>
        LET n == Len(TreeItems)
            run == SubSeq(TreeItems, 1, n - 1)
            before == _get_experiment_audiences(L(run), project_config.audience_id_map)
        IN /\ (IsOperand(TreeItems[n]) /\ before # "") =>
                  result_audience =
                      Return(before \o " " \o PendingOf(run) \o " "
                             \o OperandText(TreeItems[n]))
           /\ experiment_audience_condition = L(<<S("not"), S("1"), S("2")>>) =>
                  result_audience = Return("NOT \"Name1\" NOT \"Name2\"")

\* an and-list of a nested or-list and two ids: the ids are joined by AND
C28_Witness ==
    /\ Rendered
    /\ experiment_audience_condition =
           L(<<S("and"), L(<<S("or"), S("1"), S("2")>>), S("3"), S("9")>>)
    /\ result_audience =
           Return("(\"Name1\" OR \"Name2\") AND \"Name3\" AND \"9\"")

-----------------------------------------------------------------------------
(* C29 *)

\* C29: when two or more features list the same experiment id, every variation
\* of the experiment has the variables of the last of these features in the
\* order of the feature flags (its defaults, with the variation's overrides if
\* it is enabled), and the one ExperimentView of the experiment is the object
\* in the experimentRules of each of these features.
C29_LastDeclaringFeatureWins ==
    \A n \in ViewCalls :
        \A exp \in ListedExperiments :
            Cardinality(DeclaringFeatures(exp.id)) >= 2 =>
                LET experiment == returned[n].value.experiments_map[exp.key]
                    last == project_config.feature_flags[MaxOf(DeclaringFeatures(exp.id))]
                IN /\ \A v \in DOMAIN exp.variations :
                          FieldsOf(experiment.variations_map[exp.variations[v].key]
                                       .variables_map) =
                              IF FlagOf(exp.variations[v]) = "True"
                              THEN DefaultsWithOverrides(last, exp.variations[v])
                              ELSE DeclaredDefaults(last)
                   /\ \A f \in DeclaringFeatures(exp.id) :
                          \E i \in DOMAIN FeatureView(returned[n].value, f).experimentRules :
                              FeatureView(returned[n].value, f).experimentRules[i] = experiment

\* both features list e1: its enabled variation has the second feature's one
\* variable, overridden, and both features have the same object as their rule
C29_Witness ==
    \E n \in ViewCalls :
        /\ DeclaringFeatures("e1") = {1, 2}
        /\ DOMAIN FeatureView(returned[n].value, 1).variables_map = {"k1", "k2"}
        /\ FieldsOf(returned[n].value.experiments_map["exp1"].variations_map["on"]
                        .variables_map) =
               [k \in {"k9"} |->
                   [id |-> "v1", key |-> "k9", type |-> "boolean", value |-> "o1"]]
        /\ FeatureView(returned[n].value, 1).experimentRules =
               <<returned[n].value.experiments_map["exp1"]>>
        /\ FeatureView(returned[n].value, 2).experimentRules =
               <<returned[n].value.experiments_map["exp1"]>>

-----------------------------------------------------------------------------
(* C30 *)

\* the ids of the own experiments and of the experiments of the groups
OwnAndGroupIds == {exp.id : exp \in ListedExperiments}

\* every experiment id a feature lists is of an own or group experiment, every
\* non-empty rollout id is in the rollout index, and every override id of an
\* enabled variation of an experiment that a feature lists is declared on the
\* feature the experiment resolves against
WellWired ==
    /\ ListedExperimentIds \subseteq OwnAndGroupIds
    /\ \A f \in DOMAIN project_config.feature_flags :
           NamesRollout(project_config.feature_flags[f]) =>
               project_config.feature_flags[f].rolloutId
                   \in DOMAIN project_config.rollout_id_map
    /\ \A exp \in ListedExperiments \cup RolloutExperiments :
           DeclaringFeatures(exp.id) # {} =>
               \A v \in DOMAIN exp.variations :
                   FlagOf(exp.variations[v]) = "True" =>
                       OverriddenIds(exp.variations[v])
                           \subseteq DeclaredIds(OwningFeature(exp.id))

\* C30: on a valid service over a configuration that is wired as above, every
\* get_config call returned, and returned a ConfigView, not None: one with a
\* FeatureView under the key of every feature and an ExperimentView under the
\* key of every own and group experiment.
C30_WellWiredConfigurationGivesView ==
    (is_valid /\ WellWired) =>
        \A n \in DOMAIN returned :
            /\ ~returned[n].raised
            /\ returned[n].value # None
            /\ DOMAIN returned[n].value.features_map =
                   {project_config.feature_flags[f].key :
                       f \in DOMAIN project_config.feature_flags}
            /\ DOMAIN returned[n].value.experiments_map = OwnAndGroupKeys

\* two calls on a configuration whose first feature has an empty rollout id and
\* lists the own and the group experiment, with an enabled overriding variation
C30_Witness ==
    /\ is_valid
    /\ WellWired
    /\ ViewCalls = {1, 2}
    /\ "rolloutId" \in DOMAIN project_config.feature_flags[1]
    /\ project_config.feature_flags[1].rolloutId = ""
    /\ project_config.feature_flags[1].experimentIds = <<"e1", "e2">>
    /\ FlagOf(project_config.experiments[1].variations[1]) = "True"
    /\ Len(OverridesOf(project_config.experiments[1].variations[1])) > 0
    /\ DOMAIN returned[2].value.features_map = {"feat1", "feat2"}

====
